---- MODULE Spec2Model ----
(***************************************************************************)
(* A model of the AI Outfit Generator: the server handlers that forward    *)
(* to the generative-image model (generate-outfit, remove-background), the *)
(* vectorizer handlers, the Supabase handlers (upload-image, save-outfit)  *)
(* and the outfit page's generate / reset flow.                            *)
(***************************************************************************)
EXTENDS Integers, Sequences, FiniteSets, TLC

\* Longest image payload (in characters after an optional data-URL prefix).
MaxLen == 4
\* Longest list of parts in the first candidate of a model response.
MaxParts == 2
\* Most uploads, and most saved outfits, of one behaviour.
MaxUploads == 2
\* Most asynchronous operations the outfit page has outstanding at a time.
MaxInFlight == 2
\* The longer side of the bitmaps (the shorter one is 2 pixels).
MaxSide == 20
\* Most runs of a canvas routine on one image.
MaxPasses == 2
\* The largest image side and size limit the resizing is tried with.
MaxDim == 5

VARIABLES
  handler,    \* the route whose handler is running ("none" before any request)
  env,        \* process.env as the running handler reads it
  pc,         \* "idle" | "calling" | "uploading" | "inserting" | "responded"
  body,       \* the request body, once the handler has read it
  contents,   \* the contents array handed to ai.models.generateContent
  outcome,    \* what the external call produced (a throw or a return value)
  resp,       \* the HTTP response of the handler
  apiCalls,   \* calls to the external service made since the last user action
  client,     \* the browser's fetch: "idle" | "awaiting" | "resolved" | "rejected"
  fetches,    \* requests sent to the server since the last user action
  clock,      \* Date.now(), as far as upload-image has read it
  fileName,   \* the object name upload-image computed (0: none)
  storeLog,   \* the Supabase operations of this invocation and how they ended
  bucket,     \* the objects of the storage buckets
  clothing,   \* the rows of table clothing, by the object their image_url names
  outfits,    \* the number of rows of table generated_outfits
  \* the outfit page (app/app/page.tsx)
  topImage, bottomImage, personImage,  \* "null" | "processed" | "original"
  generatedImageUrl,                   \* "null" | "url"
  isGenerating,
  isProcessing,   \* isProcessingTopImage, ...BottomImage, ...PersonImage
  pageError,      \* the page's error state: "null" | "set"
  picks,          \* per slot, the onChange handlers awaiting their API call
  converting,     \* handleGenerate invocations converting the images
  fetching,       \* generate-outfit requests sent and not yet answered
  lastEvent,      \* the handler of the outfit page that ran last, and its slot
  afterReset,     \* whether Start Over ran since the last click on Generate
  \* the canvas routines of lib/utils.ts
  phase,      \* "none" | "file" | "canvas" | "processed"
  routine,    \* the routine run: "none" | "transparent" | "white" | "person"
  width, height,  \* canvas.width, canvas.height
  data,       \* imageData.data, one <<r, g, b, a>> per pixel, row-major
  previous,   \* data as getImageData returned it, before the pixel pass
  estimate,   \* the edge samples of removePersonBackground: their number and sums
  passes,     \* how many times the routine has run on this image
  lossy,      \* whether some encoding of the image lost the colour of clear pixels
  \* the classification of one pixel under chosen thresholds
  px, whiteT, brightT, verdict,
  \* the resizing of compressImage and convertToWhiteBackgroundPNG
  resizer,    \* the routine that resized: "none" | "compressImage" | ...
  natural,    \* img.width, img.height
  limits,     \* maxWidth, maxHeight
  canvasSize, \* canvas.width, canvas.height
  \* the taking of an image file by a component
  flow,       \* the component or input that was handed the file
  file,       \* the file's type and size
  taking,     \* "idle" | "processing" | "done"
  held,       \* the image the component holds: none, the file, or a processed one
  \* Google sign-in (the Auth component) and the page /auth/callback
  authPage,       \* "none" | "sign-in" | "provider" | "callback" | "destination"
  supabaseState,  \* "disabled" | "no client" | "ready"
  searchParams,   \* the query parameters of the page shown
  oauth_redirect, \* the sessionStorage item of that name
  signInError, googleLoading,          \* error, googleLoading of Auth
  callbackError, callbackProcessing,   \* error, isProcessing of AuthCallbackPage
  exchange,       \* the promise the callback's effect waits for, and how it ended
  timer,          \* the error parameter of the push to /sign-in a setTimeout holds
  location,       \* where the last navigation went
  \* BackgroundRemover; an image is the number of the drop that loaded it
  originalImage,      \* 0: null
  processedImageUrl,  \* the result shown: the image and background it was made for
  backgroundType,     \* the background option selected
  removerProcessing, removerError,     \* isProcessing, error of BackgroundRemover
  requested,      \* the image and background of the request in flight
  dropped         \* the images loaded so far

storeVars == <<clock, fileName, storeLog, bucket, clothing, outfits>>

handlerVars ==
  <<handler, env, pc, body, contents, outcome, resp, apiCalls, client, fetches>>

uiVars ==
  <<topImage, bottomImage, personImage, generatedImageUrl, isGenerating,
    isProcessing, pageError, picks, converting, fetching, lastEvent, afterReset>>

pixelVars == <<phase, routine, width, height, data, previous, estimate, passes, lossy>>

classifyVars == <<px, whiteT, brightT, verdict>>

resizeVars == <<resizer, natural, limits, canvasSize>>

uploadVars == <<flow, file, taking, held>>

utilVars == <<resizeVars, uploadVars>>

authVars ==
  <<authPage, supabaseState, searchParams, oauth_redirect, signInError,
    googleLoading, callbackError, callbackProcessing, exchange, timer, location>>

removerVars ==
  <<originalImage, processedImageUrl, backgroundType, removerProcessing,
    removerError, requested, dropped>>

pageVars == <<authVars, removerVars>>

libVars == <<pixelVars, classifyVars, utilVars>>

vars == <<handlerVars, storeVars, uiVars, libVars, pageVars>>

-----------------------------------------------------------------------------
(* Strings.  A payload is a sequence of characters: "A" is any character   *)
(* of the base64 alphabet [A-Za-z0-9+/], "=" is the padding character and  *)
(* "!" is any other character.  "D" at the head of a string is the literal *)
(* prefix `data:image/png;base64,`.                                        *)
Chars == {"A", "=", "!"}

Payloads == UNION {[1..n -> Chars] : n \in 0..MaxLen}

Strings == Payloads \cup {<<"D">> \o p : p \in Payloads}

\* Values a JSON body can carry in an image field.
Undefined == [kind |-> "undefined", data |-> <<>>]
JsNull == [kind |-> "null", data |-> <<>>]
ObjNoData == [kind |-> "objectNoData", data |-> <<>>]
Str(s) == [kind |-> "string", data |-> s]
Obj(s) == [kind |-> "object", data |-> s]

FieldInputs == {Undefined, JsNull, ObjNoData} \cup {Str(s) : s \in Strings}
                 \cup {Obj(s) : s \in Strings}

\* A few representative inputs: absent, accepted and well formed, accepted
\* by the handler's pattern although not base64, rejected by the pattern.
CoreInputs == {Undefined, Str(<<"A", "A", "A", "A">>), Obj(<<"=">>), Obj(<<"!">>)}

cleanBase64(s) == IF s # <<>> /\ Head(s) = "D" THEN Tail(s) ELSE s

\* /^[A-Za-z0-9+/]*={0,2}$/
MatchesBase64Pattern(c) ==
  \E k \in 0..2 :
    /\ k <= Len(c)
    /\ \A i \in 1..Len(c) : c[i] = (IF i <= Len(c) - k THEN "A" ELSE "=")

normalizeImageInput(input) ==
  CASE input.kind \in {"undefined", "null"} ->
         [threw |-> TRUE, hasData |-> FALSE, data |-> <<>>]
    [] input.kind \in {"string", "object"} ->
         [threw |-> FALSE, hasData |-> TRUE, data |-> input.data]
    [] OTHER ->
         [threw |-> FALSE, hasData |-> FALSE, data |-> <<>>]

\* JavaScript truthiness of a body field.
Truthy(input) ==
  \/ input.kind \in {"object", "objectNoData", "file"}
  \/ input.kind = "string" /\ input.data # <<>>

\* !image.data
DataFalsy(n) == ~n.hasData \/ n.data = <<>>

isValidBase64(n) ==
  /\ n.hasData
  /\ MatchesBase64Pattern(cleanBase64(n.data))
  /\ Len(cleanBase64(n.data)) > 0

-----------------------------------------------------------------------------
(* Responses.                                                              *)
NoMsg == [present |-> FALSE, kw |-> {}]
NoImage == [scheme |-> "none", mime |-> ""]
\* A header of a response: absent (Headers.get gives null) or present with a
\* value, which may be the empty string.
NoHeader == [present |-> FALSE, value |-> ""]
Header(v) == [present |-> TRUE, value |-> v]

\* The headers of the vectorizer service the handlers look at, and one they
\* do not forward.
HeaderNames ==
  {"X-Image-Token", "X-Credits-Charged", "X-Credits-Calculated", "X-Receipt",
   "Content-Type"}

NoHeaders == [n \in HeaderNames |-> NoHeader]

NoResp ==
  [status |-> 0, error |-> "", detail |-> NoMsg, imageUrl |-> NoImage, row |-> 0,
   headers |-> NoHeaders]

ErrorResp(status, error) ==
  [status |-> status, error |-> error, detail |-> NoMsg, imageUrl |-> NoImage,
   row |-> 0, headers |-> NoHeaders]

\* An error body that embeds the message of the error that was caught.
PassResp(status, error, msg) ==
  [status |-> status, error |-> error, detail |-> msg, imageUrl |-> NoImage,
   row |-> 0, headers |-> NoHeaders]

OkResp(url) ==
  [status |-> 200, error |-> "", detail |-> NoMsg, imageUrl |-> url, row |-> 0,
   headers |-> NoHeaders]

\* A 200 response whose JSON is the inserted row.
RowResp(r) ==
  [status |-> 200, error |-> "", detail |-> NoMsg, imageUrl |-> NoImage, row |-> r,
   headers |-> NoHeaders]

\* The substrings the inner catch looks for; each stands for both spellings
\* (e.g. 'quota' / 'QUOTA_EXCEEDED').
ApiKeywords == {"quota", "safety", "invalid", "permission", "timeout"}

\* A provider error message, identified by the substrings it contains.
ApiMessages == {[present |-> TRUE, kw |-> k] : k \in SUBSET ApiKeywords} \cup {NoMsg}

\* The substrings the outer catch takes for a network failure.
NetworkKeywords == {"fetch", "network"}

\* A provider error that is a network failure, such as "fetch failed".
NetworkMessages ==
  {[present |-> TRUE, kw |-> k] : k \in (SUBSET NetworkKeywords) \ {{}}}
    \cup {[present |-> TRUE, kw |-> {"network", "timeout"}]}

\* ApiErrorResponse without its timeout branch.
ApiErrorResponseNoTimeout(h, msg) ==
  IF "quota" \in msg.kw
    THEN ErrorResp(429, "API quota exceeded")
  ELSE IF "safety" \in msg.kw
    THEN ErrorResp(400, "Content was blocked by safety filters")
  ELSE IF "invalid" \in msg.kw
    THEN ErrorResp(400, "Invalid request")
  ELSE IF "permission" \in msg.kw
    THEN ErrorResp(403, "API permission denied")
  ELSE PassResp(500, "API error", msg)

ApiErrorResponse(h, msg) ==
  IF "quota" \in msg.kw
    THEN ErrorResp(429, "API quota exceeded")
  ELSE IF "safety" \in msg.kw
    THEN ErrorResp(400, "Content was blocked by safety filters")
  ELSE IF "invalid" \in msg.kw
    THEN ErrorResp(400, "Invalid request")
  ELSE IF "permission" \in msg.kw
    THEN ErrorResp(403, "API permission denied")
  ELSE IF "timeout" \in msg.kw
    THEN ErrorResp(504, "Request timed out")
  ELSE PassResp(500, "API error", msg)

\* The thrown errors the outer catch can see, by what its tests look at.
TypeError == [syntax |-> FALSE, kw |-> {}, text |-> "TypeError"]
SyntaxError == [syntax |-> TRUE, kw |-> {}, text |-> "SyntaxError"]
NotConfigured ==
  [syntax |-> FALSE, kw |-> {"must be configured"},
   text |-> "Either GOOGLE_AI_API_KEY or GOOGLE_CLOUD_PROJECT must be configured"]

GenerateOutfitCatch(e) ==
  IF e.syntax \/ "JSON" \in e.kw
    THEN ErrorResp(400, "Invalid request format")
  ELSE IF e.kw \cap NetworkKeywords # {}
    THEN ErrorResp(503, "Network error")
  ELSE ErrorResp(500, e.text)

RemoveBackgroundCatch(e) ==
  IF e.syntax \/ "JSON" \in e.kw
    THEN ErrorResp(400, "Invalid request format")
  ELSE IF "must be configured" \in e.kw
    THEN ErrorResp(500, "API configuration error")
  ELSE IF e.kw \cap NetworkKeywords # {}
    THEN ErrorResp(503, "Network error")
  ELSE ErrorResp(500, e.text)

-----------------------------------------------------------------------------
(* Request bodies.                                                         *)
BackgroundTypes == {"undefined", "transparent", "white", "custom"}

NoBody ==
  [read |-> FALSE, parsed |-> FALSE, topImage |-> Undefined,
   bottomImage |-> Undefined, personImage |-> Undefined, image |-> Undefined,
   backgroundType |-> "undefined", imageToken |-> Undefined, fields |-> {}]

Unparseable == [NoBody EXCEPT !.read = TRUE]

GOBody(t, b, p) ==
  [NoBody EXCEPT !.read = TRUE, !.parsed = TRUE, !.topImage = t,
                 !.bottomImage = b, !.personImage = p]

RBBody(i, bg) ==
  [NoBody EXCEPT !.read = TRUE, !.parsed = TRUE, !.image = i,
                 !.backgroundType = bg]

ImageFields == {"topImage", "bottomImage", "personImage"}

\* The body whose field f is x and whose other two image fields are y and z.
GOBodyAt(f, x, y, z) ==
  CASE f = "topImage" -> GOBody(x, y, z)
    [] f = "bottomImage" -> GOBody(y, x, z)
    [] f = "personImage" -> GOBody(y, z, x)

-----------------------------------------------------------------------------
(* generate-outfit, up to the call of the model.                           *)
Proceed(c) == [respond |-> FALSE, resp |-> NoResp, contents |-> c]
Respond(r) == [respond |-> TRUE, resp |-> r, contents |-> <<>>]

GenerateOutfitContents(b) ==
  (IF Truthy(b.personImage) THEN <<"personImage">> ELSE <<>>)
    \o <<"topImage", "bottomImage", "prompt">>

GenerateOutfitPreCall(b) ==
  IF ~b.parsed
    THEN Respond(GenerateOutfitCatch(SyntaxError))
  ELSE LET top == normalizeImageInput(b.topImage)
           bottom == normalizeImageInput(b.bottomImage)
           hasPerson == Truthy(b.personImage)
           person == normalizeImageInput(b.personImage)
       IN IF top.threw \/ bottom.threw
            THEN Respond(GenerateOutfitCatch(TypeError))
          ELSE IF DataFalsy(top) \/ DataFalsy(bottom)
            THEN Respond(ErrorResp(400, "Top and bottom images are required"))
          ELSE IF ~isValidBase64(top)
            THEN Respond(ErrorResp(400, "Invalid top image format"))
          ELSE IF ~isValidBase64(bottom)
            THEN Respond(ErrorResp(400, "Invalid bottom image format"))
          ELSE IF hasPerson /\ ~isValidBase64(person)
            THEN Respond(ErrorResp(400, "Invalid person image format"))
          ELSE Proceed(GenerateOutfitContents(b))

(* remove-background, up to the call of the model.                         *)
RemoveBackgroundPreCall(b) ==
  IF ~b.parsed
    THEN Respond(RemoveBackgroundCatch(SyntaxError))
  ELSE LET image == normalizeImageInput(b.image)
       IN IF image.threw
            THEN Respond(RemoveBackgroundCatch(TypeError))
          ELSE IF DataFalsy(image)
            THEN Respond(ErrorResp(400, "Image is required"))
          ELSE IF ~isValidBase64(image)
            THEN Respond(ErrorResp(400, "Invalid image format"))
          ELSE Proceed(<<"image", "prompt">>)

\* initializeGenAI: Vertex AI mode, or API-key mode, or a throw.
GenAIConfigured(e) == e.vertex \/ e.googleKey

-----------------------------------------------------------------------------
(* What the model returns or throws.                                       *)
NoOutcome ==
  [kind |-> "none", msg |-> NoMsg, hasCandidates |-> FALSE, candidates |-> <<>>,
   ok |-> FALSE, headers |-> NoHeaders]

Throw(m) ==
  [kind |-> "throw", msg |-> m, hasCandidates |-> FALSE, candidates |-> <<>>,
   ok |-> FALSE, headers |-> NoHeaders]

Return(has, cs) ==
  [kind |-> "return", msg |-> NoMsg, hasCandidates |-> has, candidates |-> cs,
   ok |-> TRUE, headers |-> NoHeaders]

\* A part of candidates[0].content.parts: text holding a URL, other text,
\* inline image data with or without a MIME type, or neither text nor data.
PartKinds == {"textUrl", "textPlain", "inlineData", "inlineDataNoMime", "other"}

PartLists == UNION {[1..n -> PartKinds] : n \in 0..MaxParts}

FinishReasons == {"undefined", "STOP", "SAFETY", "MAX_TOKENS"}

Candidates ==
  {[finishReason |-> f, hasContent |-> TRUE, parts |-> ps] :
     f \in FinishReasons, ps \in PartLists}
    \cup {[finishReason |-> f, hasContent |-> FALSE, parts |-> <<>>] :
            f \in FinishReasons}

\* Only candidates[0] is read: a response carries no list, an empty list or
\* a first candidate.
ProviderOutcomes ==
  {Throw(m) : m \in ApiMessages \cup NetworkMessages}
    \cup {Return(FALSE, <<>>), Return(TRUE, <<>>)}
    \cup {Return(TRUE, <<c>>) : c \in Candidates}

CoreOutcomes ==
  {Throw(NoMsg), Throw([present |-> TRUE, kw |-> {}]),
   Throw([present |-> TRUE, kw |-> {"quota"}]),
   Return(FALSE, <<>>),
   Return(TRUE, <<[finishReason |-> "STOP", hasContent |-> TRUE,
                   parts |-> <<"inlineData">>]>>),
   Return(TRUE, <<[finishReason |-> "STOP", hasContent |-> TRUE,
                   parts |-> <<"textUrl">>]>>)}

\* body.backgroundType || 'transparent'
EffectiveBackground(b) ==
  IF b.backgroundType = "undefined" THEN "transparent" ELSE b.backgroundType

\* The data URI built from an inlineData part.
DataUri(h, b, part) ==
  LET partMime == IF part = "inlineData" THEN "image/jpeg" ELSE "undefined"
  IN IF h = "generate-outfit"
       THEN [scheme |-> "data", mime |-> partMime]
     ELSE IF EffectiveBackground(b) = "transparent"
       THEN [scheme |-> "data", mime |-> "image/png"]
     ELSE [scheme |-> "data",
           mime |-> IF partMime = "undefined" THEN "image/png" ELSE partMime]

RECURSIVE ExtractImage(_, _, _)
ExtractImage(h, b, parts) ==
  IF parts = <<>>
    THEN NoImage
  ELSE IF Head(parts) = "textUrl"
    THEN [scheme |-> "http", mime |-> ""]
  ELSE IF Head(parts) \in {"inlineData", "inlineDataNoMime"}
    THEN DataUri(h, b, Head(parts))
  ELSE ExtractImage(h, b, Tail(parts))

\* AfterGenerateContent testing only `!candidates`: candidates[0] of an empty
\* list is undefined and reading its finishReason throws into the outer catch.
AfterGenerateContentNoLengthCheck(h, b, o) ==
  IF o.kind = "throw"
    THEN ApiErrorResponse(h, o.msg)
  ELSE IF ~o.hasCandidates
    THEN ErrorResp(500, "No response from AI model")
  ELSE IF o.candidates = <<>>
    THEN IF h = "generate-outfit" THEN GenerateOutfitCatch(TypeError)
         ELSE RemoveBackgroundCatch(TypeError)
  ELSE IF o.candidates[1].finishReason = "SAFETY"
    THEN ErrorResp(400, "Content was blocked by safety filters")
  ELSE LET c == o.candidates[1]
           url == IF c.hasContent THEN ExtractImage(h, b, c.parts) ELSE NoImage
       IN IF url = NoImage
            THEN ErrorResp(500, "The API response did not contain an image")
          ELSE OkResp(url)

\* AfterGenerateContent without the final `!imageUrl` test.
AfterGenerateContentNoImageCheck(h, b, o) ==
  IF o.kind = "throw"
    THEN ApiErrorResponse(h, o.msg)
  ELSE IF ~o.hasCandidates \/ o.candidates = <<>>
    THEN ErrorResp(500, "No response from AI model")
  ELSE IF o.candidates[1].finishReason = "SAFETY"
    THEN ErrorResp(400, "Content was blocked by safety filters")
  ELSE LET c == o.candidates[1]
       IN OkResp(IF c.hasContent THEN ExtractImage(h, b, c.parts) ELSE NoImage)

\* The handler from the return (or throw) of generateContent to its response.
AfterGenerateContent(h, b, o) ==
  IF o.kind = "throw"
    THEN ApiErrorResponse(h, o.msg)
  ELSE IF ~o.hasCandidates \/ o.candidates = <<>>
    THEN ErrorResp(500, "No response from AI model")
  ELSE IF o.candidates[1].finishReason = "SAFETY"
    THEN ErrorResp(400, "Content was blocked by safety filters")
  ELSE LET c == o.candidates[1]
           url == IF c.hasContent THEN ExtractImage(h, b, c.parts) ELSE NoImage
       IN IF url = NoImage
            THEN ErrorResp(500, "The API response did not contain an image")
          ELSE OkResp(url)

-----------------------------------------------------------------------------
(* The handlers as steps: from the request to the first await of an        *)
(* external call, and from the return of that call to the response.        *)
NoEnv ==
  [googleKey |-> FALSE, vertex |-> FALSE, vectorizer |-> FALSE, supabase |-> FALSE,
   serverModule |-> "none"]

GenHandlers == {"generate-outfit", "remove-background"}
VecHandlers == {"vectorize", "vectorize/download", "vectorize/status", "vectorize/delete"}

Finish(r) ==
  /\ pc' = "responded"
  /\ resp' = r
  /\ contents' = <<>>
  /\ apiCalls' = apiCalls

Call(c) ==
  /\ pc' = "calling"
  /\ resp' = NoResp
  /\ contents' = c
  /\ apiCalls' = apiCalls + 1

\* generate-outfit from the parsed body on.
GenerateOutfitReceives(b) ==
  /\ body' = b
  /\ LET r == GenerateOutfitPreCall(b)
     IN IF r.respond THEN Finish(r.resp) ELSE Call(r.contents)

\* The bodies are those in which at most one image field leaves the core
\* inputs; that field ranges over `inputs`.
GenerateOutfitPOST(inputs) ==
  /\ pc = "idle"
  /\ client = "idle"
  /\ client' = "awaiting"
  /\ fetches' = fetches + 1
  /\ UNCHANGED <<storeVars, uiVars, libVars, pageVars>>
  /\ handler' = "generate-outfit"
  /\ outcome' = NoOutcome
  /\ \E key \in BOOLEAN :
       /\ env' = [NoEnv EXCEPT !.googleKey = key]
       /\ IF ~key
            THEN /\ body' = NoBody
                 /\ Finish(ErrorResp(500, "GOOGLE_AI_API_KEY is not configured"))
            ELSE \E parsed \in BOOLEAN :
                   IF ~parsed
                     THEN GenerateOutfitReceives(Unparseable)
                     ELSE \E f \in ImageFields, x \in inputs,
                             y \in CoreInputs, z \in CoreInputs :
                            GenerateOutfitReceives(GOBodyAt(f, x, y, z))

\* remove-background from the parsed body on.
RemoveBackgroundReceives(b) ==
  /\ body' = b
  /\ LET r == RemoveBackgroundPreCall(b)
     IN IF r.respond THEN Finish(r.resp) ELSE Call(r.contents)

RemoveBackgroundPOST(inputs) ==
  /\ pc = "idle"
  /\ client = "idle"
  /\ client' = "awaiting"
  /\ fetches' = fetches + 1
  /\ UNCHANGED <<storeVars, uiVars, libVars, pageVars>>
  /\ handler' = "remove-background"
  /\ outcome' = NoOutcome
  /\ \E key \in BOOLEAN, vertex \in BOOLEAN :
       /\ env' = [NoEnv EXCEPT !.googleKey = key, !.vertex = vertex]
       /\ IF ~GenAIConfigured(env')
            THEN /\ body' = NoBody
                 /\ Finish(RemoveBackgroundCatch(NotConfigured))
            ELSE \E parsed \in BOOLEAN :
                   IF ~parsed
                     THEN RemoveBackgroundReceives(Unparseable)
                     ELSE \E i \in inputs, bg \in BackgroundTypes :
                            RemoveBackgroundReceives(RBBody(i, bg))

\* GenerateContentReturns calling the model once more when the call throws.
GenerateContentRetries(outs) ==
  /\ pc = "calling"
  /\ handler \in GenHandlers
  /\ \E o \in outs :
       /\ outcome' = o
       /\ IF o.kind = "throw" /\ apiCalls < 2
            THEN /\ pc' = "calling"
                 /\ resp' = NoResp
                 /\ apiCalls' = apiCalls + 1
            ELSE /\ pc' = "responded"
                 /\ resp' = AfterGenerateContent(handler, body, o)
                 /\ apiCalls' = apiCalls
  /\ UNCHANGED <<handler, env, body, contents, client, fetches>>
  /\ UNCHANGED <<storeVars, uiVars, libVars, pageVars>>

GenerateContentReturns(outs) ==
  /\ pc = "calling"
  /\ handler \in GenHandlers
  /\ \E o \in outs :
       /\ outcome' = o
       /\ resp' = AfterGenerateContent(handler, body, o)
  /\ pc' = "responded"
  /\ UNCHANGED <<handler, env, body, contents, apiCalls, client, fetches>>
  /\ UNCHANGED <<storeVars, uiVars, libVars, pageVars>>

-----------------------------------------------------------------------------
(* The vectorizer handlers.                                                *)
FileInput == [kind |-> "file", data |-> <<>>]

VectorizerBodies ==
  {Unparseable}
    \cup {[NoBody EXCEPT !.read = TRUE, !.parsed = TRUE, !.image = i, !.imageToken = t] :
            i \in {Undefined, FileInput}, t \in {Undefined, Str(<<>>), Str(<<"A">>)}}

VectorizerCatch == ErrorResp(500, "error.message")

\* VectorizerPreCall without the test of the credentials.
VectorizerPreCallNoCredentialsCheck(h, b, creds) ==
  IF h = "vectorize/status"
    THEN Proceed(<<"credentials">>)
  ELSE IF ~b.parsed
    THEN Respond(VectorizerCatch)
  ELSE IF h = "vectorize" /\ ~Truthy(b.image)
    THEN Respond(ErrorResp(400, "No image provided"))
  ELSE IF h # "vectorize" /\ ~Truthy(b.imageToken)
    THEN Respond(ErrorResp(400, "No image token provided"))
  ELSE Proceed(<<IF h = "vectorize" THEN "image" ELSE "image.token", "credentials">>)

VectorizerPreCall(h, b, creds) ==
  IF h = "vectorize/status"
    THEN IF ~creds THEN Respond(ErrorResp(500, "API credentials not configured"))
         ELSE Proceed(<<"credentials">>)
  ELSE IF ~b.parsed
    THEN Respond(VectorizerCatch)
  ELSE IF h = "vectorize" /\ ~Truthy(b.image)
    THEN Respond(ErrorResp(400, "No image provided"))
  ELSE IF h # "vectorize" /\ ~Truthy(b.imageToken)
    THEN Respond(ErrorResp(400, "No image token provided"))
  ELSE IF ~creds
    THEN Respond(ErrorResp(500, "API credentials not configured"))
  ELSE Proceed(<<IF h = "vectorize" THEN "image" ELSE "image.token", "credentials">>)

VectorizerRequest(h) ==
  /\ pc = "idle"
  /\ client = "idle"
  /\ client' = "awaiting"
  /\ fetches' = fetches + 1
  /\ UNCHANGED <<storeVars, uiVars, libVars, pageVars>>
  /\ handler' = h
  /\ outcome' = NoOutcome
  /\ \E creds \in BOOLEAN :
       /\ env' = [NoEnv EXCEPT !.vectorizer = creds]
       /\ \E b \in (IF h = "vectorize/status" THEN {NoBody} ELSE VectorizerBodies) :
            /\ body' = b
            /\ LET r == VectorizerPreCall(h, b, creds)
               IN IF r.respond THEN Finish(r.resp) ELSE Call(r.contents)

VectorizePOST == VectorizerRequest("vectorize")
DownloadPOST == VectorizerRequest("vectorize/download")
AccountStatusGET == VectorizerRequest("vectorize/status")
DeleteImagePOST == VectorizerRequest("vectorize/delete")

\* The response of the vectorizer service to fetch: its response.ok and
\* its headers.
Upstream(isOk, hs) == [Return(FALSE, <<>>) EXCEPT !.ok = isOk, !.headers = hs]

HeaderValues == {NoHeader, Header(""), Header("1")}

UpstreamOutcomes ==
  {Throw(NoMsg)}
    \cup {Upstream(isOk, hs) : isOk \in BOOLEAN, hs \in [HeaderNames -> HeaderValues]}

headersToForward(h) ==
  CASE h = "vectorize" ->
         {"X-Image-Token", "X-Credits-Charged", "X-Credits-Calculated", "X-Receipt"}
    [] h = "vectorize/download" ->
         {"X-Credits-Charged", "X-Credits-Calculated", "X-Receipt"}
    [] OTHER -> {}

\* The handler's own Content-Type header.
ContentTypes == {"image/svg+xml", "application/pdf"}

\* ForwardedHeaders leaving X-Receipt out.
ForwardedHeadersWithoutReceipt(h, hs, ct) ==
  [n \in HeaderNames |->
     IF n = "Content-Type" THEN Header(ct)
     ELSE IF n \in headersToForward(h) \ {"X-Receipt"} /\ hs[n].present /\ hs[n].value # ""
       THEN hs[n]
     ELSE NoHeader]

\* new NextResponse(data, { headers: { "Content-Type": ... } }), then for each
\* header to forward: value = headers.get(header); if (value) set it.
ForwardedHeaders(h, hs, ct) ==
  [n \in HeaderNames |->
     IF n = "Content-Type" THEN Header(ct)
     ELSE IF n \in headersToForward(h) /\ hs[n].present /\ hs[n].value # ""
       THEN hs[n]
     ELSE NoHeader]

\* The utility function throws unless response.ok; vectorize and download
\* answer with the data and the forwarded headers, status and delete with
\* JSON.
VectorizerResponse(h, o, ct) ==
  IF o.kind = "throw" \/ ~o.ok
    THEN VectorizerCatch
  ELSE IF h \in {"vectorize", "vectorize/download"}
    THEN [NoResp EXCEPT !.status = 200, !.headers = ForwardedHeaders(h, o.headers, ct)]
  ELSE [NoResp EXCEPT !.status = 200]

VectorizerReturns ==
  /\ pc = "calling"
  /\ handler \in VecHandlers
  /\ \E o \in UpstreamOutcomes,
        ct \in (IF handler = "vectorize/download" THEN ContentTypes ELSE {"image/svg+xml"}) :
       /\ outcome' = o
       /\ resp' = VectorizerResponse(handler, o, ct)
  /\ pc' = "responded"
  /\ UNCHANGED <<handler, env, body, contents, apiCalls, client, fetches>>
  /\ UNCHANGED <<storeVars, uiVars, libVars, pageVars>>

\* The caller of fetch reads the response: anything but a 2xx status is thrown
\* as an Error and shown to the user, a 2xx status yields data.imageUrl.  The
\* invocation is over and its locals are gone.
ClientReceives ==
  /\ pc = "responded"
  /\ client = "awaiting"
  /\ client' = IF resp.status = 200 THEN "resolved" ELSE "rejected"
  /\ pc' = "idle"
  /\ handler' = "none"
  /\ env' = NoEnv
  /\ body' = NoBody
  /\ contents' = <<>>
  /\ outcome' = NoOutcome
  /\ resp' = NoResp
  /\ fileName' = 0
  /\ storeLog' = <<>>
  /\ UNCHANGED <<apiCalls, fetches, clock, bucket, clothing, outfits>>
  /\ UNCHANGED <<uiVars, libVars, pageVars>>

\* The user triggers the action again (or another one).
UserActsAgain ==
  /\ client \in {"resolved", "rejected"}
  /\ client' = "idle"
  /\ fetches' = 0
  /\ apiCalls' = 0
  /\ UNCHANGED <<handler, env, pc, body, contents, outcome, resp>>
  /\ UNCHANGED <<storeVars, uiVars, libVars, pageVars>>

-----------------------------------------------------------------------------
(* The outfit page.                                                        *)
Slots == {"top", "bottom", "person"}

SlotImage(s) ==
  CASE s = "top" -> topImage
    [] s = "bottom" -> bottomImage
    [] s = "person" -> personImage

\* setTopImage / setBottomImage / setPersonImage
SetSlotImage(s, v) ==
  /\ topImage' = IF s = "top" THEN v ELSE topImage
  /\ bottomImage' = IF s = "bottom" THEN v ELSE bottomImage
  /\ personImage' = IF s = "person" THEN v ELSE personImage

\* What the page has just done: the handler and, for a slot's handler, the slot.
Event(n, s) == [name |-> n, slot |-> s]
NoEvent == Event("none", "none")

Outstanding ==
  picks["top"] + picks["bottom"] + picks["person"] + converting + fetching

\* The upload view is rendered while there is no generated image.
UploadView == generatedImageUrl = "null"

\* onChange of #top-input, #bottom-input, #full-input, up to the await of
\* extractGarmentAPI / normalizePoseAPI.  The input exists while its slot is
\* empty.
PickFile(s) ==
  /\ UploadView
  /\ SlotImage(s) = "null"
  /\ Outstanding < MaxInFlight
  /\ isProcessing' = [isProcessing EXCEPT ![s] = TRUE]
  /\ pageError' = "null"
  /\ picks' = [picks EXCEPT ![s] = @ + 1]
  /\ lastEvent' = Event("onChange", s)
  /\ UNCHANGED <<topImage, bottomImage, personImage, generatedImageUrl,
                 isGenerating, converting, fetching, afterReset>>
  /\ UNCHANGED <<handlerVars, storeVars, libVars, pageVars>>

\* PreprocessingReturns whose catch sets the error and no image.
PreprocessingReturnsNoFallback(s) ==
  /\ picks[s] > 0
  /\ picks' = [picks EXCEPT ![s] = @ - 1]
  /\ isProcessing' = [isProcessing EXCEPT ![s] = FALSE]
  /\ \E ok \in BOOLEAN :
       IF ok
         THEN SetSlotImage(s, "processed") /\ pageError' = pageError
         ELSE SetSlotImage(s, SlotImage(s)) /\ pageError' = "set"
  /\ lastEvent' = Event("onChange returns", s)
  /\ UNCHANGED <<generatedImageUrl, isGenerating, converting, fetching, afterReset>>
  /\ UNCHANGED <<handlerVars, storeVars, libVars, pageVars>>

\* The rest of onChange: the processed file, or on failure the original file
\* and an error; finally the processing flag is cleared.
PreprocessingReturns(s) ==
  /\ picks[s] > 0
  /\ picks' = [picks EXCEPT ![s] = @ - 1]
  /\ isProcessing' = [isProcessing EXCEPT ![s] = FALSE]
  /\ \E ok \in BOOLEAN :
       IF ok
         THEN SetSlotImage(s, "processed") /\ pageError' = pageError
         ELSE SetSlotImage(s, "original") /\ pageError' = "set"
  /\ lastEvent' = Event("onChange returns", s)
  /\ UNCHANGED <<generatedImageUrl, isGenerating, converting, fetching, afterReset>>
  /\ UNCHANGED <<handlerVars, storeVars, libVars, pageVars>>

\* The REMOVE button under an uploaded image.
RemoveImage(s) ==
  /\ UploadView
  /\ SlotImage(s) # "null"
  /\ SetSlotImage(s, "null")
  /\ lastEvent' = Event("REMOVE", s)
  /\ UNCHANGED <<generatedImageUrl, isGenerating, isProcessing, pageError, picks,
                 converting, fetching, afterReset>>
  /\ UNCHANGED <<handlerVars, storeVars, libVars, pageVars>>

\* The GENERATE OUTFIT element is rendered when the three images are there
\* and no result is; its onClick is handleGenerate, whatever isGenerating is.
GenerateRendered ==
  /\ generatedImageUrl = "null"
  /\ personImage # "null"
  /\ topImage # "null"
  /\ bottomImage # "null"

\* handleGenerate up to its first await.
ClickGenerate ==
  /\ GenerateRendered
  /\ Outstanding < MaxInFlight
  /\ isGenerating' = TRUE
  /\ pageError' = "null"
  /\ generatedImageUrl' = "null"
  /\ converting' = converting + 1
  /\ lastEvent' = Event("handleGenerate", "none")
  /\ afterReset' = FALSE
  /\ UNCHANGED <<topImage, bottomImage, personImage, isProcessing, picks, fetching>>
  /\ UNCHANGED <<handlerVars, storeVars, libVars, pageVars>>

\* handleGenerate from the conversions to the fetch of /api/generate-outfit;
\* a conversion that rejects ends in the catch and the finally.
ConversionEnds ==
  /\ converting > 0
  /\ converting' = converting - 1
  /\ \E ok \in BOOLEAN :
       IF ok
         THEN /\ fetching' = fetching + 1
              /\ UNCHANGED <<pageError, isGenerating>>
         ELSE /\ fetching' = fetching
              /\ pageError' = "set"
              /\ isGenerating' = FALSE
  /\ lastEvent' = Event("conversion ends", "none")
  /\ UNCHANGED <<topImage, bottomImage, personImage, generatedImageUrl,
                 isProcessing, picks, afterReset>>
  /\ UNCHANGED <<handlerVars, storeVars, libVars, pageVars>>

\* handleGenerate from the response of /api/generate-outfit to its end.
FetchReturns ==
  /\ fetching > 0
  /\ fetching' = fetching - 1
  /\ isGenerating' = FALSE
  /\ \E ok \in BOOLEAN :
       IF ok
         THEN generatedImageUrl' = "url" /\ pageError' = pageError
         ELSE generatedImageUrl' = generatedImageUrl /\ pageError' = "set"
  /\ lastEvent' = Event("fetch returns", "none")
  /\ UNCHANGED <<topImage, bottomImage, personImage, isProcessing, picks, converting,
                 afterReset>>
  /\ UNCHANGED <<handlerVars, storeVars, libVars, pageVars>>

\* A Start Over that clears the person image too.
handleResetClearsPerson ==
  /\ topImage' = "null"
  /\ bottomImage' = "null"
  /\ generatedImageUrl' = "null"
  /\ pageError' = "null"
  /\ personImage' = "null"
  /\ lastEvent' = Event("handleReset", "none")
  /\ afterReset' = TRUE
  /\ UNCHANGED <<isGenerating, isProcessing, picks, converting, fetching>>
  /\ UNCHANGED <<handlerVars, storeVars, libVars, pageVars>>

\* START OVER
handleReset ==
  /\ topImage' = "null"
  /\ bottomImage' = "null"
  /\ generatedImageUrl' = "null"
  /\ pageError' = "null"
  /\ lastEvent' = Event("handleReset", "none")
  /\ afterReset' = TRUE
  /\ UNCHANGED <<personImage, isGenerating, isProcessing, picks, converting, fetching>>
  /\ UNCHANGED <<handlerVars, storeVars, libVars, pageVars>>

NextUI ==
  \/ \E s \in Slots : PickFile(s)
  \/ \E s \in Slots : PreprocessingReturns(s)
  \/ \E s \in Slots : RemoveImage(s)
  \/ ClickGenerate
  \/ ConversionEnds
  \/ FetchReturns
  \/ handleReset

-----------------------------------------------------------------------------
(* The canvas routines of lib/utils.ts.  A pixel is <<r, g, b, a>>; a       *)
(* bitmap is the sequence of its pixels in row-major order, as in           *)
(* imageData.data.  Brightness thresholds are in hundredths.                *)
whiteThreshold == 240
brightnessThreshold == 90
colorThreshold == 40
personBrightnessThreshold == 85

\* brightness = (r + g + b) / 3 / 255;  brightness > t / 100
IsLight(p, t) == 100 * (p[1] + p[2] + p[3]) > t * 3 * 255

IsWhite(p, tw) == p[1] > tw /\ p[2] > tw /\ p[3] > tw

\* IsBackground without the brightness test.
IsBackgroundWhiteOnly(p, tw, tb) == IsWhite(p, tw)

\* IsBackground comparing with >= instead of >.
IsBackgroundInclusive(p, tw, tb) ==
  \/ p[1] >= tw /\ p[2] >= tw /\ p[3] >= tw
  \/ 100 * (p[1] + p[2] + p[3]) >= tb * 3 * 255

\* isWhite || isLight
IsBackground(p, tw, tb) == IsWhite(p, tw) \/ IsLight(p, tb)

SetAlpha(p, a) == <<p[1], p[2], p[3], a>>

\* TransparentPass clearing every pixel, whatever its colour.
TransparentPassClearsAll(d) == [i \in 1..Len(d) |-> SetAlpha(d[i], 0)]

\* The pixel loop of convertToTransparentPNG.
TransparentPass(d) ==
  [i \in 1..Len(d) |->
     IF IsBackground(d[i], whiteThreshold, brightnessThreshold)
       THEN SetAlpha(d[i], 0) ELSE d[i]]

\* WhitePass filling every pixel, whatever its colour.
WhitePassFillsAll(d) == [i \in 1..Len(d) |-> <<255, 255, 255, 255>>]

\* The pixel loop of convertToWhiteBackgroundPNG.
WhitePass(d) ==
  [i \in 1..Len(d) |->
     IF IsBackground(d[i], whiteThreshold, brightnessThreshold)
       THEN <<255, 255, 255, 255>> ELSE d[i]]

Min(a, b) == IF a <= b THEN a ELSE b

\* Math.min(50, Math.floor(width / 10), Math.floor(height / 10))
SampleSize(w, h) == Min(50, Min(w \div 10, h \div 10))

\* The four pixels sampled in round i, as indices of the bitmap.
SampleIndices(w, h, n, i) ==
  LET topX == (i * w) \div n
      leftY == (i * h) \div n
  IN <<topX + 1, topX + (h - 1) * w + 1, leftY * w + 1, (w - 1) + leftY * w + 1>>

RECURSIVE SumSamples(_, _, _, _, _, _)
SumSamples(d, w, h, n, i, c) ==
  IF i >= n
    THEN 0
    ELSE LET ix == SampleIndices(w, h, n, i)
         IN d[ix[1]][c] + d[ix[2]][c] + d[ix[3]][c] + d[ix[4]][c]
              + SumSamples(d, w, h, n, i + 1, c)

NoEstimate == [n |-> 0, sum |-> <<0, 0, 0>>]

\* edgeSamples, by their number and the sums avgR, avgG, avgB are divided by;
\* without samples the three averages are 0 / 0, which is NaN.
EdgeEstimate(d, w, h) ==
  LET n == SampleSize(w, h)
  IN [n |-> 4 * n, sum |-> [c \in 1..3 |-> SumSamples(d, w, h, n, 0, c)]]

\* colorDistance < colorThreshold, with avg = sum / n; false when avg is NaN.
NearEstimate(p, e) ==
  /\ e.n > 0
  /\ (e.n * p[1] - e.sum[1]) * (e.n * p[1] - e.sum[1])
       + (e.n * p[2] - e.sum[2]) * (e.n * p[2] - e.sum[2])
       + (e.n * p[3] - e.sum[3]) * (e.n * p[3] - e.sum[3])
     < colorThreshold * colorThreshold * e.n * e.n

\* PersonPass blanking the colour of the pixels it clears.
PersonPassBlanksColour(d, e) ==
  [i \in 1..Len(d) |->
     IF NearEstimate(d[i], e) \/ IsLight(d[i], personBrightnessThreshold)
       THEN <<0, 0, 0, 0>> ELSE d[i]]

\* PersonPass raising the alpha of the pixels it keeps.
PersonPassOpaqueForeground(d, e) ==
  [i \in 1..Len(d) |->
     IF NearEstimate(d[i], e) \/ IsLight(d[i], personBrightnessThreshold)
       THEN SetAlpha(d[i], 0) ELSE SetAlpha(d[i], 255)]

\* The pixel loop of removePersonBackground.
PersonPass(d, e) ==
  [i \in 1..Len(d) |->
     IF NearEstimate(d[i], e) \/ IsLight(d[i], personBrightnessThreshold)
       THEN SetAlpha(d[i], 0) ELSE d[i]]

\* Source-over compositing of one channel on white, rounded to nearest.
OnWhite(c, a) == (c * a + 255 * (255 - a) + 127) \div 255

\* What getImageData returns once the image is drawn: the image itself on a
\* clear canvas, the image over white after fillRect('#FFFFFF').
Drawn(o, d) ==
  IF o = "white"
    THEN [i \in 1..Len(d) |->
            <<OnWhite(d[i][1], d[i][4]), OnWhite(d[i][2], d[i][4]),
              OnWhite(d[i][3], d[i][4]), 255>>]
    ELSE d

\* A channel stored premultiplied by alpha and read back.
Premultiplied(c, a) ==
  IF a = 0 THEN 0
  ELSE LET m == (c * a + 127) \div 255
       IN Min(255, (m * 255 + a \div 2) \div a)

\* The canvas encoded as PNG and decoded again.  A canvas may keep its
\* pixels premultiplied by alpha, and then the colour of a clear pixel is
\* lost and that of a translucent one is rounded.
Encoded(d, loses) ==
  IF loses
    THEN [i \in 1..Len(d) |->
            <<Premultiplied(d[i][1], d[i][4]), Premultiplied(d[i][2], d[i][4]),
              Premultiplied(d[i][3], d[i][4]), d[i][4]>>]
    ELSE d

Colours ==
  {<<255, 255, 255>>, <<0, 0, 0>>, <<100, 100, 100>>, <<120, 120, 120>>,
   <<20, 20, 20>>, <<230, 230, 229>>}

Alphas == {0, 128, 255}

Sides == {2, MaxSide}

OnBorder(i, w, h) ==
  LET x == (i - 1) % w
      y == (i - 1) \div w
  IN x = 0 \/ x = w - 1 \/ y = 0 \/ y = h - 1

\* The bitmap whose first pixel is `first`, whose other border pixels are
\* `border` and whose inner pixels are `inner`.
Bitmap(w, h, first, border, inner) ==
  [i \in 1..(w * h) |->
     IF i = 1 THEN first
     ELSE IF OnBorder(i, w, h) THEN border
     ELSE inner]

Routines == {"transparent", "white", "person"}

\* A file is handed to one of the routines.
ChooseFile ==
  /\ phase = "none"
  /\ \E o \in Routines, w \in Sides, h \in Sides,
        c1 \in Colours, a1 \in Alphas, c2 \in Colours, c3 \in Colours :
       /\ routine' = o
       /\ width' = w
       /\ height' = h
       /\ data' = Bitmap(w, h, <<c1[1], c1[2], c1[3], a1>>,
                          <<c2[1], c2[2], c2[3], 255>>, <<c3[1], c3[2], c3[3], 255>>)
  /\ phase' = "file"
  /\ UNCHANGED <<previous, estimate, passes, lossy>>
  /\ UNCHANGED <<handlerVars, storeVars, uiVars, classifyVars, utilVars, pageVars>>

\* img.onload up to getImageData.
DrawImage ==
  /\ phase = "file"
  /\ phase' = "canvas"
  /\ data' = Drawn(routine, data)
  /\ UNCHANGED <<routine, width, height, previous, estimate, passes, lossy>>
  /\ UNCHANGED <<handlerVars, storeVars, uiVars, classifyVars, utilVars, pageVars>>

\* The edge sampling (removePersonBackground only) and the pixel loop.
PixelPass ==
  /\ phase = "canvas"
  /\ phase' = "processed"
  /\ previous' = data
  /\ estimate' = IF routine = "person" THEN EdgeEstimate(data, width, height) ELSE NoEstimate
  /\ data' = CASE routine = "transparent" -> TransparentPass(data)
               [] routine = "white" -> WhitePass(data)
               [] routine = "person" -> PersonPass(data, estimate')
  /\ passes' = passes + 1
  /\ UNCHANGED <<routine, width, height, lossy>>
  /\ UNCHANGED <<handlerVars, storeVars, uiVars, classifyVars, utilVars, pageVars>>

\* putImageData and toBlob; the PNG is handed to the same routine again.
ToBlob ==
  /\ phase = "processed"
  /\ passes < MaxPasses
  /\ phase' = "file"
  /\ \E loses \in BOOLEAN :
       /\ data' = Encoded(data, loses)
       /\ lossy' = (lossy \/ loses)
  /\ UNCHANGED <<routine, width, height, previous, estimate, passes>>
  /\ UNCHANGED <<handlerVars, storeVars, uiVars, classifyVars, utilVars, pageVars>>

NextPixels ==
  \/ ChooseFile
  \/ DrawImage
  \/ PixelPass
  \/ ToBlob

\* The absolute-threshold rule applied to one pixel, for every whiteness
\* threshold of 0..255 and brightness thresholds from 0 to 1.
BrightThresholds == {0, 25, 50, 75, 85, 90, 99, 100}

Classify ==
  /\ verdict = "none"
  /\ \E c \in Colours, tw \in 0..255, tb \in BrightThresholds :
       /\ px' = <<c[1], c[2], c[3], 255>>
       /\ whiteT' = tw
       /\ brightT' = tb
       /\ verdict' = IF IsBackground(px', tw, tb) THEN "background" ELSE "foreground"
  /\ UNCHANGED <<handlerVars, storeVars, uiVars, pixelVars, utilVars, pageVars>>

NextClassify == Classify

-----------------------------------------------------------------------------
(* The resizing of compressImage and convertToWhiteBackgroundPNG.          *)
NoSize == [width |-> 0, height |-> 0]

\* a / (b / c) as a canvas dimension.  The canvas truncates the number to an
\* integer; when the exact quotient is an integer, the floating-point one may
\* be it or fall just below it.
Scaled(a, b, c) ==
  LET q == (a * c) \div b
  IN IF (a * c) % b = 0 THEN {q, q - 1} ELSE {q}

\* The sizes the canvas can get for an image of w x h under the limits.
ResizedSizes(w, h, maxWidth, maxHeight) ==
  IF w > maxWidth \/ h > maxHeight
    THEN IF w > h
           THEN {[width |-> Min(w, maxWidth), height |-> y] :
                   y \in Scaled(Min(w, maxWidth), w, h)}
           ELSE {[width |-> x, height |-> Min(h, maxHeight)] :
                   x \in Scaled(Min(h, maxHeight), h, w)}
    ELSE {[width |-> w, height |-> h]}

Resizers == {"compressImage", "convertToWhiteBackgroundPNG"}

\* img.onload up to the setting of canvas.width and canvas.height.
Resize ==
  /\ resizer = "none"
  /\ \E r \in Resizers, w \in 1..MaxDim, h \in 1..MaxDim,
        mw \in 1..MaxDim, mh \in 1..MaxDim :
       /\ resizer' = r
       /\ natural' = [width |-> w, height |-> h]
       /\ limits' = [width |-> mw, height |-> mh]
       /\ canvasSize' \in ResizedSizes(w, h, mw, mh)
  /\ UNCHANGED <<handlerVars, storeVars, uiVars, pixelVars, classifyVars, uploadVars, pageVars>>

NextResize == Resize

-----------------------------------------------------------------------------
(* The components that take an image file from the user.                   *)
maxSize == 10 * 1024 * 1024

allowedTypes == {"image/png", "image/jpeg", "image/jpg", "image/webp"}

FileTypes == allowedTypes \cup {"image/gif", "application/pdf"}

FileSizes == {1, maxSize, maxSize + 1}

NoFile == [kind |-> "none", type |-> "", size |-> 0]

UserFile(t, n) == [kind |-> "file", type |-> t, size |-> n]

\* The PNG made from the data URL an API returned.
ProcessedFile == [kind |-> "processed", type |-> "image/png", size |-> 1]

validateImageFile(f) == f.type \in allowedTypes /\ f.size <= maxSize

\* The components whose onDrop validates, and the inputs of the outfit page.
DropFlows == {"ImageUpload", "BackgroundRemover"}
PageFlows == {"top-input", "bottom-input", "full-input"}

\* onDrop of ImageUpload (the wardrobe's upload) and of BackgroundRemover.
OnDrop ==
  /\ taking = "idle"
  /\ \E fl \in DropFlows, t \in FileTypes, n \in FileSizes :
       /\ flow' = fl
       /\ file' = UserFile(t, n)
       /\ held' = IF validateImageFile(file') THEN file' ELSE NoFile
  /\ taking' = "done"
  /\ UNCHANGED <<handlerVars, storeVars, uiVars, pixelVars, classifyVars, resizeVars, pageVars>>

\* onChange of an input of the outfit page, up to the await of the API call.
\* The input's accept attribute only filters the file dialog.
OnChange ==
  /\ taking = "idle"
  /\ \E fl \in PageFlows, t \in FileTypes, n \in FileSizes :
       /\ flow' = fl
       /\ file' = UserFile(t, n)
  /\ taking' = "processing"
  /\ held' = NoFile
  /\ UNCHANGED <<handlerVars, storeVars, uiVars, pixelVars, classifyVars, resizeVars, pageVars>>

\* The rest of onChange: the processed file, or in the catch the file itself.
OnChangeEnds ==
  /\ taking = "processing"
  /\ taking' = "done"
  /\ \E ok \in BOOLEAN : held' = IF ok THEN ProcessedFile ELSE file
  /\ UNCHANGED <<flow, file>>
  /\ UNCHANGED <<handlerVars, storeVars, uiVars, pixelVars, classifyVars, resizeVars, pageVars>>

NextUpload ==
  \/ OnDrop
  \/ OnChange
  \/ OnChangeEnds

-----------------------------------------------------------------------------
-----------------------------------------------------------------------------
(* Google sign-in (the Auth component) and the page /auth/callback.        *)
(* A query parameter is what searchParams.get returns: null when the       *)
(* parameter is absent, else its value, which may be empty.                *)
Absent == "null"

Paths == {"/app", "/wardrobe"}

RedirectParams == {Absent, ""} \cup Paths

\* a || b on a string or null
OrElse(a, b) == IF a = Absent \/ a = "" THEN b ELSE a

\* if (a) on a string or null
Present(a) == a # Absent /\ a # ""

NoParams ==
  [redirect |-> Absent, error |-> Absent, error_description |-> Absent,
   code |-> Absent, next |-> Absent]

\* config.supabaseEnabled is false; getSupabaseClient() returns null; or a client.
SupabaseStates == {"disabled", "no client", "ready"}

\* The user opens /sign-in, with or without a redirect parameter.
OpenSignIn ==
  /\ authPage = "none"
  /\ \E st \in SupabaseStates, r \in RedirectParams :
       /\ supabaseState' = st
       /\ searchParams' = [NoParams EXCEPT !.redirect = r]
  /\ authPage' = "sign-in"
  /\ signInError' = "null"
  /\ googleLoading' = FALSE
  /\ UNCHANGED <<oauth_redirect, callbackError, callbackProcessing, exchange, timer,
                 location>>
  /\ UNCHANGED <<handlerVars, storeVars, uiVars, libVars, removerVars>>

\* The button is rendered when Supabase is enabled and disabled while
\* googleLoading.  The callback URL carries no query parameter.
handleGoogleSignIn ==
  /\ authPage = "sign-in"
  /\ supabaseState # "disabled"
  /\ ~googleLoading
  /\ IF supabaseState = "no client"
       THEN /\ signInError' = "Supabase is not configured"
            /\ googleLoading' = FALSE
            /\ UNCHANGED <<authPage, oauth_redirect>>
       ELSE /\ oauth_redirect' = OrElse(searchParams.redirect, "/app")
            /\ \E o \in {"error", "url", "no url"} :
                 /\ signInError' = IF o = "error" THEN "OAuth error" ELSE "null"
                 /\ googleLoading' = (o # "error")
                 /\ authPage' = IF o = "url" THEN "provider" ELSE authPage
  /\ UNCHANGED <<supabaseState, searchParams, callbackError, callbackProcessing,
                 exchange, timer, location>>
  /\ UNCHANGED <<handlerVars, storeVars, uiVars, libVars, removerVars>>

\* What the provider appends to the callback URL.
ProviderParams ==
  {[NoParams EXCEPT !.code = c] : c \in {Absent, "code"}}
    \cup {[NoParams EXCEPT !.error = "access_denied", !.error_description = d] :
            d \in {Absent, "", "denied by the user"}}

\* Any URL of the callback page.
CallbackParams ==
  {[NoParams EXCEPT !.code = c, !.error = e, !.error_description = d, !.next = n] :
     c \in {Absent, "code"}, e \in {Absent, "access_denied"},
     d \in {Absent, "denied by the user"}, n \in {Absent} \cup Paths}

\* The callback page mounts: error is null and isProcessing is true.
MountCallback(params) ==
  /\ authPage' = "callback"
  /\ searchParams' = params
  /\ callbackError' = "null"
  /\ callbackProcessing' = TRUE
  /\ exchange' = "none"
  /\ timer' = "none"

\* The provider sends the browser back to the callback URL.
ProviderRedirects ==
  /\ authPage = "provider"
  /\ \E params \in ProviderParams : MountCallback(params)
  /\ UNCHANGED <<supabaseState, oauth_redirect, signInError, googleLoading, location>>
  /\ UNCHANGED <<handlerVars, storeVars, uiVars, libVars, removerVars>>

\* The user opens a URL of the callback page.
OpenCallback ==
  /\ authPage = "none"
  /\ \E st \in SupabaseStates : supabaseState' = st
  /\ \E params \in CallbackParams : MountCallback(params)
  /\ UNCHANGED <<oauth_redirect, signInError, googleLoading, location>>
  /\ UNCHANGED <<handlerVars, storeVars, uiVars, libVars, removerVars>>

\* The effect of the callback page, up to the promise it starts.
CallbackEffect ==
  /\ authPage = "callback"
  /\ exchange = "none"
  /\ IF supabaseState = "disabled"
       THEN /\ callbackError' = "Supabase is not configured"
            /\ callbackProcessing' = FALSE
            /\ exchange' = "returned"
            /\ timer' = timer
     ELSE IF supabaseState = "no client"
       THEN /\ callbackError' = "Supabase client not available"
            /\ callbackProcessing' = FALSE
            /\ exchange' = "returned"
            /\ timer' = timer
     ELSE IF Present(searchParams.error)
       THEN /\ callbackError' =
                 OrElse(searchParams.error_description, searchParams.error)
            /\ callbackProcessing' = FALSE
            /\ exchange' = "returned"
            /\ timer' = callbackError'
     ELSE /\ exchange' = IF Present(searchParams.code)
                           THEN "exchangeCodeForSession" ELSE "getSession"
          /\ UNCHANGED <<callbackError, callbackProcessing, timer>>
  /\ UNCHANGED <<authPage, supabaseState, searchParams, oauth_redirect, signInError,
                 googleLoading, location>>
  /\ UNCHANGED <<handlerVars, storeVars, uiVars, libVars, removerVars>>

\* router.push(next)
PushNext ==
  /\ location' = OrElse(searchParams.next, "/app")
  /\ authPage' = "destination"
  /\ UNCHANGED <<callbackError, timer>>

\* setError(message) and the setTimeout that will push /sign-in?error=param
FailCallback(message, param) ==
  /\ callbackError' = message
  /\ timer' = param
  /\ UNCHANGED <<authPage, location>>

\* The then and the catch of exchangeCodeForSession.
ExchangeReturns ==
  /\ authPage = "callback"
  /\ exchange = "exchangeCodeForSession"
  /\ \E o \in {"exchangeError", "session", "no session", "rejected"} :
       /\ exchange' = IF o = "session" THEN "exchanged" ELSE "failed"
       /\ CASE o = "exchangeError" -> FailCallback("exchangeError.message", "exchangeError.message")
            [] o = "session" -> PushNext
            [] o = "no session" -> FailCallback("No session created", "authentication_failed")
            [] o = "rejected" -> FailCallback("err.message", "err.message")
  /\ UNCHANGED <<supabaseState, searchParams, oauth_redirect, signInError,
                 googleLoading, callbackProcessing>>
  /\ UNCHANGED <<handlerVars, storeVars, uiVars, libVars, removerVars>>

\* The then of getSession; the promise has no catch.
GetSessionReturns ==
  /\ authPage = "callback"
  /\ exchange = "getSession"
  /\ \E o \in {"session", "no session", "rejected"} :
       /\ exchange' = IF o = "session" THEN "found" ELSE "failed"
       /\ CASE o = "session" -> PushNext
            [] o = "no session" ->
                 FailCallback("OAuth callback failed: No authorization code received",
                              "oauth_callback_failed")
            [] o = "rejected" -> UNCHANGED <<authPage, location, callbackError, timer>>
  /\ UNCHANGED <<supabaseState, searchParams, oauth_redirect, signInError,
                 googleLoading, callbackProcessing>>
  /\ UNCHANGED <<handlerVars, storeVars, uiVars, libVars, removerVars>>

\* The scheduled router.push('/sign-in?error=...'); the sign-in page shows
\* the error parameter.
TimerFires ==
  /\ authPage = "callback"
  /\ timer # "none"
  /\ timer' = "none"
  /\ location' = "/sign-in"
  /\ authPage' = "sign-in"
  /\ searchParams' = [NoParams EXCEPT !.error = timer]
  /\ signInError' = timer
  /\ googleLoading' = FALSE
  /\ UNCHANGED <<supabaseState, oauth_redirect, callbackError, callbackProcessing,
                 exchange>>
  /\ UNCHANGED <<handlerVars, storeVars, uiVars, libVars, removerVars>>

\* What the callback page renders.
CallbackView ==
  IF callbackProcessing THEN "Completing authentication"
  ELSE IF callbackError # "null" THEN "Authentication Error"
  ELSE "Authentication Successful"

NextAuth ==
  \/ OpenSignIn
  \/ handleGoogleSignIn
  \/ ProviderRedirects
  \/ OpenCallback
  \/ CallbackEffect
  \/ ExchangeReturns
  \/ GetSessionReturns
  \/ TimerFires

-----------------------------------------------------------------------------
(* BackgroundRemover.                                                      *)
MaxImages == 3

\* What removeBackgroundAPI was called with, and so what its result shows.
Result(n, t) == [image |-> n, backgroundType |-> t]
NoResult == Result(0, "none")

\* The radio buttons of the background options.
setBackgroundType ==
  /\ \E t \in {"transparent", "white", "custom"} :
       /\ t # backgroundType
       /\ backgroundType' = t
  /\ UNCHANGED <<originalImage, processedImageUrl, removerProcessing, removerError,
                 requested, dropped>>
  /\ UNCHANGED <<handlerVars, storeVars, uiVars, libVars, authVars>>

\* onDrop; the dropzone is rendered while there is no original image.
removerOnDrop ==
  /\ originalImage = 0
  /\ dropped < MaxImages
  /\ \E t \in FileTypes, n \in FileSizes :
       IF validateImageFile(UserFile(t, n))
         THEN /\ removerError' = "null"
              /\ originalImage' = dropped + 1
              /\ dropped' = dropped + 1
              /\ processedImageUrl' = NoResult
         ELSE /\ removerError' = "Invalid file"
              /\ UNCHANGED <<originalImage, dropped, processedImageUrl>>
  /\ UNCHANGED <<backgroundType, removerProcessing, requested>>
  /\ UNCHANGED <<handlerVars, storeVars, uiVars, libVars, authVars>>

\* handleRemoveBackground up to the await of removeBackgroundAPI; its button
\* is rendered with the original image and disabled while isProcessing.
handleRemoveBackground ==
  /\ originalImage # 0
  /\ ~removerProcessing
  /\ removerProcessing' = TRUE
  /\ removerError' = "null"
  /\ processedImageUrl' = NoResult
  /\ requested' = Result(originalImage, backgroundType)
  /\ UNCHANGED <<originalImage, backgroundType, dropped>>
  /\ UNCHANGED <<handlerVars, storeVars, uiVars, libVars, authVars>>

\* handleRemoveBackground from the answer of removeBackgroundAPI to its end.
removeBackgroundAPIReturns ==
  /\ requested # NoResult
  /\ requested' = NoResult
  /\ removerProcessing' = FALSE
  /\ \E ok \in BOOLEAN :
       IF ok
         THEN processedImageUrl' = requested /\ removerError' = removerError
         ELSE processedImageUrl' = processedImageUrl
              /\ removerError' = "Failed to remove background"
  /\ UNCHANGED <<originalImage, backgroundType, dropped>>
  /\ UNCHANGED <<handlerVars, storeVars, uiVars, libVars, authVars>>

\* handleReset of BackgroundRemover, the X button over the original image.
removerHandleReset ==
  /\ originalImage # 0
  /\ originalImage' = 0
  /\ processedImageUrl' = NoResult
  /\ removerError' = "null"
  /\ UNCHANGED <<backgroundType, removerProcessing, requested, dropped>>
  /\ UNCHANGED <<handlerVars, storeVars, uiVars, libVars, authVars>>

NextRemover ==
  \/ setBackgroundType
  \/ removerOnDrop
  \/ handleRemoveBackground
  \/ removeBackgroundAPIReturns
  \/ removerHandleReset

Init ==
  /\ handler = "none"
  /\ env = NoEnv
  /\ pc = "idle"
  /\ body = NoBody
  /\ contents = <<>>
  /\ outcome = NoOutcome
  /\ resp = NoResp
  /\ apiCalls = 0
  /\ client = "idle"
  /\ fetches = 0
  /\ clock = 0
  /\ fileName = 0
  /\ storeLog = <<>>
  /\ bucket = {}
  /\ clothing = {}
  /\ outfits = 0
  /\ topImage = "null"
  /\ bottomImage = "null"
  /\ personImage = "null"
  /\ generatedImageUrl = "null"
  /\ isGenerating = FALSE
  /\ isProcessing = [s \in Slots |-> FALSE]
  /\ pageError = "null"
  /\ picks = [s \in Slots |-> 0]
  /\ converting = 0
  /\ fetching = 0
  /\ lastEvent = NoEvent
  /\ afterReset = FALSE
  /\ phase = "none"
  /\ routine = "none"
  /\ width = 0
  /\ height = 0
  /\ data = <<>>
  /\ previous = <<>>
  /\ estimate = NoEstimate
  /\ passes = 0
  /\ lossy = FALSE
  /\ px = <<0, 0, 0, 0>>
  /\ whiteT = whiteThreshold
  /\ brightT = brightnessThreshold
  /\ verdict = "none"
  /\ resizer = "none"
  /\ natural = NoSize
  /\ limits = NoSize
  /\ canvasSize = NoSize
  /\ flow = "none"
  /\ file = NoFile
  /\ taking = "idle"
  /\ held = NoFile
  /\ authPage = "none"
  /\ supabaseState = "ready"
  /\ searchParams = NoParams
  /\ oauth_redirect = Absent
  /\ signInError = "null"
  /\ googleLoading = FALSE
  /\ callbackError = "null"
  /\ callbackProcessing = TRUE
  /\ exchange = "none"
  /\ timer = "none"
  /\ location = "none"
  /\ originalImage = 0
  /\ processedImageUrl = NoResult
  /\ backgroundType = "transparent"
  /\ removerProcessing = FALSE
  /\ removerError = "null"
  /\ requested = NoResult
  /\ dropped = 0

\* Every request of the body universe, against a few answers of the model.
Next ==
  \/ GenerateOutfitPOST(FieldInputs)
  \/ RemoveBackgroundPOST(FieldInputs)
  \/ GenerateContentReturns(CoreOutcomes)
  \/ VectorizePOST
  \/ DownloadPOST
  \/ AccountStatusGET
  \/ DeleteImagePOST
  \/ VectorizerReturns
  \/ ClientReceives
  \/ UserActsAgain

Spec == Init /\ [][Next]_vars

\* A few requests, against every answer of the model.
NextProvider ==
  \/ GenerateOutfitPOST(CoreInputs)
  \/ RemoveBackgroundPOST(CoreInputs)
  \/ GenerateContentReturns(ProviderOutcomes)
  \/ ClientReceives
  \/ UserActsAgain

SpecProvider == Init /\ [][NextProvider]_vars

SpecUI == Init /\ [][NextUI]_vars

\* A preprocessing call that was made settles: its promise resolves or rejects.
SpecUILive == SpecUI /\ \A s \in Slots : WF_vars(PreprocessingReturns(s))

SpecPixels == Init /\ [][NextPixels]_vars

SpecClassify == Init /\ [][NextClassify]_vars

SpecResize == Init /\ [][NextResize]_vars

SpecUpload == Init /\ [][NextUpload]_vars

SpecAuth == Init /\ [][NextAuth]_vars

SpecRemover == Init /\ [][NextRemover]_vars


-----------------------------------------------------------------------------
(* The Supabase handlers: upload-image and save-outfit.                    *)
StoreHandlers == {"upload-image", "save-outfit"}

UploadImageFields == {"file", "type", "userId"}
SaveOutfitFields == {"userId", "topId", "bottomId", "resultImageUrl"}

FormBodies(fields) ==
  {Unparseable}
    \cup {[NoBody EXCEPT !.read = TRUE, !.parsed = TRUE, !.fields = f] :
            f \in SUBSET fields}

\* createServerClient of lib/supabase/server.ts is an async function: what a
\* caller gets without await is a Promise, whatever the configuration.
createServerClientAsync(e) == "Promise"

\* The createServerClient that returns the client itself, or null.  With
\* Supabase enabled the URL and the anon key are set.
createServerClientSync(e) == IF e.supabase THEN "SupabaseClient" ELSE "null"

\* The repository holds both modules; which of them '@/lib/supabase/server'
\* names is a matter of the build.
createServerClient(e) ==
  IF e.serverModule = "async" THEN createServerClientAsync(e)
  ELSE createServerClientSync(e)

StoreCatch(text) == ErrorResp(500, text)

\* A handler of the two up to its first Supabase operation: `required` are
\* the fields it insists on.
StorePreCall(e, b, required) ==
  IF ~e.supabase
    THEN Respond(ErrorResp(400, "Supabase is not enabled"))
  ELSE IF ~b.parsed
    THEN Respond(StoreCatch("error.message"))
  ELSE IF ~(required \subseteq b.fields)
    THEN Respond(ErrorResp(400, "Missing required fields"))
  ELSE IF createServerClient(e) = "null"
    THEN Respond(ErrorResp(500, "Supabase client not available"))
  ELSE IF createServerClient(e) = "Promise"
    THEN Respond(StoreCatch("TypeError"))
  ELSE Proceed(<<>>)

StoreRequest(h, required, next) ==
  /\ pc = "idle"
  /\ client = "idle"
  /\ client' = "awaiting"
  /\ fetches' = fetches + 1
  /\ handler' = h
  /\ outcome' = NoOutcome
  /\ contents' = <<>>
  /\ storeLog' = <<>>
  /\ UNCHANGED <<apiCalls, bucket, clothing, outfits>>
  /\ UNCHANGED <<uiVars, libVars, pageVars>>
  /\ \E enabled \in BOOLEAN, module \in {"async", "sync"} :
       /\ env' = [NoEnv EXCEPT !.supabase = enabled, !.serverModule = module]
       /\ \E b \in (IF enabled THEN FormBodies(required) ELSE {NoBody}) :
            /\ body' = b
            /\ LET r == StorePreCall(env', b, required)
               IN IF r.respond
                    THEN /\ pc' = "responded"
                         /\ resp' = r.resp
                         /\ UNCHANGED <<clock, fileName>>
                    ELSE /\ pc' = next
                         /\ resp' = NoResp
                         /\ IF h = "upload-image"
                              THEN clock' = clock + 1 /\ fileName' = clock + 1
                              ELSE UNCHANGED <<clock, fileName>>

UploadImagePOST ==
  /\ clock < MaxUploads
  /\ StoreRequest("upload-image", UploadImageFields, "uploading")

SaveOutfitPOST ==
  /\ outfits < MaxUploads
  /\ StoreRequest("save-outfit", SaveOutfitFields, "inserting")

LogEntry(op, ok) == [op |-> op, ok |-> ok]

\* supabase.storage.from(bucketName).upload(fileName, file) returns.
StorageUploadReturns ==
  /\ pc = "uploading"
  /\ handler = "upload-image"
  /\ \E ok \in BOOLEAN :
       /\ storeLog' = Append(storeLog, LogEntry("upload", ok))
       /\ IF ok
            THEN /\ bucket' = bucket \cup {fileName}
                 /\ pc' = "inserting"
                 /\ resp' = NoResp
            ELSE /\ bucket' = bucket
                 /\ pc' = "responded"
                 /\ resp' = StoreCatch("uploadError.message")
  /\ UNCHANGED <<uiVars, libVars, pageVars>>
  /\ UNCHANGED <<handler, env, body, contents, outcome, apiCalls, client, fetches,
                 clock, fileName, clothing, outfits>>

\* ClothingInsertReturns removing the uploaded object when the insert fails.
ClothingInsertRollsBack ==
  /\ pc = "inserting"
  /\ handler = "upload-image"
  /\ \E ok \in BOOLEAN :
       /\ storeLog' = Append(storeLog, LogEntry("insert", ok))
       /\ IF ok
            THEN /\ clothing' = clothing \cup {fileName}
                 /\ bucket' = bucket
                 /\ resp' = RowResp(fileName)
            ELSE /\ clothing' = clothing
                 /\ bucket' = bucket \ {fileName}
                 /\ resp' = StoreCatch("dbError.message")
  /\ pc' = "responded"
  /\ UNCHANGED <<uiVars, libVars, pageVars>>
  /\ UNCHANGED <<handler, env, body, contents, outcome, apiCalls, client, fetches,
                 clock, fileName, outfits>>

\* supabase.from('clothing').insert(...).select().single() returns.
ClothingInsertReturns ==
  /\ pc = "inserting"
  /\ handler = "upload-image"
  /\ \E ok \in BOOLEAN :
       /\ storeLog' = Append(storeLog, LogEntry("insert", ok))
       /\ IF ok
            THEN /\ clothing' = clothing \cup {fileName}
                 /\ resp' = RowResp(fileName)
            ELSE /\ clothing' = clothing
                 /\ resp' = StoreCatch("dbError.message")
  /\ pc' = "responded"
  /\ UNCHANGED <<uiVars, libVars, pageVars>>
  /\ UNCHANGED <<handler, env, body, contents, outcome, apiCalls, client, fetches,
                 clock, fileName, bucket, outfits>>

\* supabase.from('generated_outfits').insert(...).select().single() returns.
OutfitInsertReturns ==
  /\ pc = "inserting"
  /\ handler = "save-outfit"
  /\ \E ok \in BOOLEAN :
       /\ storeLog' = Append(storeLog, LogEntry("insert", ok))
       /\ IF ok
            THEN /\ outfits' = outfits + 1
                 /\ resp' = RowResp(outfits + 1)
            ELSE /\ outfits' = outfits
                 /\ resp' = StoreCatch("error.message")
  /\ pc' = "responded"
  /\ UNCHANGED <<uiVars, libVars, pageVars>>
  /\ UNCHANGED <<handler, env, body, contents, outcome, apiCalls, client, fetches,
                 clock, fileName, bucket, clothing>>

NextStore ==
  \/ UploadImagePOST
  \/ StorageUploadReturns
  \/ ClothingInsertReturns
  \/ SaveOutfitPOST
  \/ OutfitInsertReturns
  \/ ClientReceives
  \/ UserActsAgain

SpecStore == Init /\ [][NextStore]_vars

-----------------------------------------------------------------------------
(* Properties of the generation handlers.                                  *)

\* Base64 proper: groups of four characters of the alphabet, the last group
\* padded with at most two "=" (after an optional data-URL prefix).
WellFormedBase64(s) ==
  LET c == cleanBase64(s)
  IN Len(c) > 0 /\ Len(c) % 4 = 0 /\ MatchesBase64Pattern(c)

MalformedImage(input) ==
  /\ input.kind \in {"string", "object"}
  /\ input.data # <<>>
  /\ ~WellFormedBase64(input.data)

HasMalformedImage ==
  IF handler = "generate-outfit"
    THEN \/ MalformedImage(body.topImage)
         \/ MalformedImage(body.bottomImage)
         \/ MalformedImage(body.personImage)
    ELSE MalformedImage(body.image)

Missing(input) == input.kind \in {"undefined", "null"}

RequiredImageMissing ==
  IF handler = "generate-outfit"
    THEN Missing(body.topImage) \/ Missing(body.bottomImage)
    ELSE Missing(body.image)

Responded(hs) == pc = "responded" /\ handler \in hs

\* C1: with credentials configured, a request to generate-outfit or
\* remove-background one of whose image payloads is malformed base64 is
\* answered 400 with an error message.
C1_MalformedBase64Gives400 ==
  (Responded(GenHandlers) /\ body.parsed /\ HasMalformedImage)
    => (resp.status = 400 /\ resp.error # "")

\* C2: a request to generate-outfit or remove-background that lacks a
\* required image field (absent or null) is answered 400.
C2_MissingRequiredImageGives400 ==
  (Responded(GenHandlers) /\ body.parsed /\ RequiredImageMissing)
    => resp.status = 400

StatusOfCategory(k) ==
  CASE k = "quota" -> 429
    [] k = "safety" -> 400
    [] k = "invalid" -> 400
    [] k = "permission" -> 403
    [] k = "timeout" -> 504

\* C3: when the call of the model throws, the status is the one of the
\* category of the error message: 429 for quota, 400 for safety, 403 for
\* permission, 504 for timeout (a message of several categories gets the
\* status of one of them), and a message of no category gives 500 with the
\* message in the error body.
C3_ProviderErrorStatus ==
  (Responded(GenHandlers) /\ outcome.kind = "throw") =>
    LET k == outcome.msg.kw \cap ApiKeywords
    IN /\ \A c \in ApiKeywords : (k = {c}) => resp.status = StatusOfCategory(c)
       /\ (k # {}) => resp.status \in {StatusOfCategory(c) : c \in k}
       /\ (k = {}) => /\ resp.status = 500
                      /\ resp.error = "API error"
                      /\ resp.detail = outcome.msg

C3_Witness ==
  /\ Responded(GenHandlers)
  /\ outcome.kind = "throw"
  /\ outcome.msg.kw = {"timeout"}
  /\ resp.status = 504

NoCandidates == outcome.kind = "return" /\ (~outcome.hasCandidates \/ outcome.candidates = <<>>)

\* C4: a response of the model without candidates (the list missing or
\* empty) is answered 500 with the message that the AI model did not respond.
C4_NoCandidatesGives500 ==
  (Responded(GenHandlers) /\ NoCandidates)
    => (resp.status = 500 /\ resp.error = "No response from AI model")

C4_Witness ==
  /\ Responded(GenHandlers)
  /\ outcome.kind = "return"
  /\ outcome.hasCandidates
  /\ outcome.candidates = <<>>
  /\ resp.status = 500

CredentialsConfigured ==
  CASE handler = "generate-outfit" -> env.googleKey
    [] handler = "remove-background" -> GenAIConfigured(env)
    [] handler \in VecHandlers -> env.vectorizer
    [] OTHER -> TRUE

\* C5 as stated: without credentials every one of these handlers answers 500
\* and does not call the external service.
C5_NoCredentialsGives500 ==
  (Responded(GenHandlers \cup VecHandlers) /\ ~CredentialsConfigured)
    => (resp.status = 500 /\ apiCalls = 0)

VectorizerFieldMissing ==
  /\ handler \in VecHandlers \ {"vectorize/status"}
  /\ body.parsed
  /\ ~Truthy(IF handler = "vectorize" THEN body.image ELSE body.imageToken)

\* C5, amended: without credentials these handlers never call the external
\* service and answer 500, except that a vectorizer handler that takes a form
\* field answers 400 to a request without that field, which it tests first.
C5_NoCredentialsNoCall ==
  (Responded(GenHandlers \cup VecHandlers) /\ ~CredentialsConfigured)
    => /\ apiCalls = 0
       /\ resp.status = IF VectorizerFieldMissing THEN 400 ELSE 500

C5_Witness ==
  /\ Responded({"vectorize"})
  /\ ~env.vectorizer
  /\ body.parsed
  /\ Truthy(body.image)
  /\ resp.status = 500
  /\ resp.error = "API credentials not configured"

\* C7: nothing is retried: between two user actions at most one request is
\* sent and the external API is called at most once, a failed call included.
C7_NoAutomaticRetry == apiCalls <= 1 /\ fetches <= 1

C7_Witness ==
  /\ client = "rejected"
  /\ apiCalls = 1
  /\ fetches = 1

ImageFromUrlInText ==
  /\ resp.imageUrl.scheme = "http"
  /\ outcome.kind = "return"
  /\ outcome.candidates # <<>>
  /\ \E i \in 1..Len(outcome.candidates[1].parts) :
       outcome.candidates[1].parts[i] = "textUrl"

\* C10 as stated: a 200 response carries a base64 data URI, any other
\* response an error message.
C10_DataUriOrError ==
  Responded(GenHandlers) =>
    /\ (resp.status = 200) => resp.imageUrl.scheme = "data"
    /\ (resp.status # 200) => resp.error # ""

\* C10, amended: a 200 response carries an imageUrl that is a base64 data
\* URI built from an inline-data part or an http(s) URL found in a text part
\* of the model's answer; any other response carries an error message and
\* no image.
C10_ImageOrError ==
  Responded(GenHandlers) =>
    /\ (resp.status = 200) =>
         /\ resp.error = ""
         /\ resp.imageUrl.scheme = "data" \/ ImageFromUrlInText
    /\ (resp.status # 200) => (resp.error # "" /\ resp.imageUrl = NoImage)

C10_Witness ==
  /\ Responded(GenHandlers)
  /\ resp.status = 200
  /\ resp.imageUrl.scheme = "http"

-----------------------------------------------------------------------------
(* Properties of the Supabase handlers.                                    *)

UploadedThenInsertFailed ==
  /\ Responded({"upload-image"})
  /\ storeLog = <<LogEntry("upload", TRUE), LogEntry("insert", FALSE)>>

\* C8: when upload-image has stored the file and the insert into clothing
\* fails, the response is 500 and nothing is undone: the object stays in
\* the bucket and no row of clothing names it.
C8_NoCompensation ==
  UploadedThenInsertFailed
    => (resp.status = 500 /\ fileName \in bucket /\ fileName \notin clothing)

C8_Witness == UploadedThenInsertFailed /\ resp.status = 500 /\ fileName \in bucket

RequiredFields ==
  IF handler = "upload-image" THEN UploadImageFields ELSE SaveOutfitFields

NoOperationFailed == \A i \in 1..Len(storeLog) : storeLog[i].ok

\* C9: with Supabase enabled and every required field in the request,
\* upload-image and save-outfit answer 200 with the inserted row unless an
\* operation of the hosted storage or database fails.
C9_InsertedRowReturned ==
  (/\ Responded(StoreHandlers)
   /\ env.supabase
   /\ body.parsed
   /\ RequiredFields \subseteq body.fields
   /\ NoOperationFailed)
    => (resp.status = 200 /\ resp.row # 0)

-----------------------------------------------------------------------------
(* Properties of the outfit page.                                          *)

\* C6: at most one generate-outfit request of the page is in flight, and
\* handleGenerate does not start while an earlier invocation is pending.
C6_OneGenerationInFlight == converting + fetching <= 1 /\ fetching <= 1

-----------------------------------------------------------------------------
(* Properties of the canvas routines.                                      *)
White == <<255, 255, 255, 255>>
Black == <<0, 0, 0, 255>>

AlphaChannel(d) == [i \in 1..Len(d) |-> d[i][4]]

Processed(rs) == phase = "processed" /\ routine \in rs

TwoByTwoScenario ==
  /\ Processed({"transparent"})
  /\ width = 2
  /\ height = 2
  /\ previous = <<White, Black, Black, Black>>

\* C11: convertToTransparentPNG (whiteness threshold 240) on the 2x2 bitmap
\* with a white top-left pixel and three black pixels, all opaque, leaves the
\* alpha channel <<0, 255, 255, 255>> in row-major order.
C11_TwoByTwoAlpha ==
  TwoByTwoScenario => AlphaChannel(data) = <<0, 255, 255, 255>>

C11_Witness ==
  /\ TwoByTwoScenario
  /\ whiteThreshold = 240
  /\ data = <<SetAlpha(White, 0), Black, Black, Black>>

Classified == verdict # "none"

\* C12: under the absolute-threshold rule a pixel with R = G = B = 255 is
\* background for every whiteness threshold of 0..255; at threshold 255 it is
\* so by its brightness, which exceeds every brightness threshold below 1.
C12_WhiteIsBackground ==
  (Classified /\ px = White /\ (whiteT < 255 \/ brightT < 100))
    => verdict = "background"

C12_Witness ==
  /\ Classified
  /\ px = White
  /\ whiteT = 255
  /\ brightT = brightnessThreshold
  /\ verdict = "background"

\* C13: under the absolute-threshold rule a pixel with R = G = B = 0 is
\* foreground for every whiteness threshold of 0..255 and every brightness
\* threshold from 0 to 1.
C13_BlackIsForeground ==
  (Classified /\ px = Black) => verdict = "foreground"

C13_Witness ==
  /\ Classified
  /\ px = Black
  /\ whiteT = 0
  /\ brightT = 0
  /\ verdict = "foreground"

Rgb(p) == <<p[1], p[2], p[3]>>

\* Every border pixel of bitmap d has the colour of its first pixel.
ConstantBorder(d, w, h) ==
  \A i \in 1..Len(d) : OnBorder(i, w, h) => Rgb(d[i]) = Rgb(d[1])

\* C14: removePersonBackground on a bitmap whose border pixels all have one
\* colour C computes exactly C as its background estimate.
C14_EstimateIsBorderColour ==
  (Processed({"person"}) /\ ConstantBorder(previous, width, height))
    => /\ estimate.n > 0
       /\ \A c \in 1..3 : estimate.sum[c] = estimate.n * previous[1][c]

SecondPass(rs) == Processed(rs) /\ passes >= 2

\* C15 as stated: run on its own output, a transparent-background routine
\* changes no pixel.
C15_SecondPassChangesNothing ==
  SecondPass({"transparent", "person"}) => data = previous

\* C15, amended: a transparent-background routine never changes a pixel that
\* is already at alpha 0, and run on its own output it changes no pixel when
\* the encoding between the two runs kept the pixel data.
C15_ClearPixelsStay ==
  Processed({"transparent", "person"}) =>
    /\ \A i \in 1..Len(data) : previous[i][4] = 0 => data[i] = previous[i]
    /\ (passes >= 2 /\ ~lossy) => data = previous

C15_Witness ==
  /\ SecondPass({"person"})
  /\ ~lossy
  /\ data = previous
  /\ \E i \in 1..Len(data) : data[i][4] = 0 /\ Rgb(data[i]) # <<0, 0, 0>>
  /\ \E i \in 1..Len(data) : data[i][4] # 0

\* The classification the routine made of pixel p.
IsBackgroundOf(r, p) ==
  CASE r = "person" ->
         NearEstimate(p, estimate) \/ IsLight(p, personBrightnessThreshold)
    [] OTHER -> IsBackground(p, whiteThreshold, brightnessThreshold)

\* C16: the pixel loop of convertToTransparentPNG and removePersonBackground
\* sets the alpha of every background pixel to 0, leaves every foreground
\* pixel as it was, and changes no R, G or B of any pixel.
C16_TransparentModeFrame ==
  Processed({"transparent", "person"}) =>
    \A i \in 1..Len(data) :
      /\ Rgb(data[i]) = Rgb(previous[i])
      /\ IF IsBackgroundOf(routine, previous[i])
           THEN data[i][4] = 0
           ELSE data[i] = previous[i]

C16_Witness ==
  /\ Processed({"person"})
  /\ estimate.n > 0
  /\ \E i \in 1..Len(data) :
       /\ previous[i][4] = 255
       /\ data[i][4] = 0
       /\ Rgb(data[i]) # <<0, 0, 0>>
  /\ \E i \in 1..Len(data) : data[i] = previous[i] /\ data[i][4] = 128

\* C17: the pixel loop of convertToWhiteBackgroundPNG overwrites every
\* background pixel with opaque white and leaves every foreground pixel as
\* it was.
C17_FlatFill ==
  Processed({"white"}) =>
    \A i \in 1..Len(data) :
      IF IsBackgroundOf(routine, previous[i])
        THEN data[i] = White
        ELSE data[i] = previous[i]

C17_Witness ==
  /\ Processed({"white"})
  /\ \E i \in 1..Len(data) : previous[i] # White /\ data[i] = White
  /\ \E i \in 1..Len(data) : data[i] = previous[i] /\ data[i] # White

-----------------------------------------------------------------------------
(* Properties of the vectorizer handlers' headers.                         *)
UpstreamAnswered ==
  /\ Responded({"vectorize", "vectorize/download"})
  /\ outcome.kind = "return"

\* C18 as stated: every usage-credit header of the upstream response is in
\* the handler's response with the same value, and a header absent upstream
\* is absent from it.
C18_HeadersVerbatim ==
  UpstreamAnswered =>
    \A n \in headersToForward(handler) : resp.headers[n] = outcome.headers[n]

\* C18, amended: when the upstream call succeeds, vectorize and download
\* forward each usage-credit header (vectorize X-Image-Token too) that is
\* present upstream with a non-empty value, unchanged; a header that is absent
\* or empty upstream is not in the response, nor is any upstream header when
\* the upstream call fails.
C18_NonEmptyHeadersForwarded ==
  UpstreamAnswered =>
    \A n \in HeaderNames \ {"Content-Type"} :
      resp.headers[n] =
        IF outcome.ok /\ n \in headersToForward(handler) /\ outcome.headers[n].value # ""
          THEN outcome.headers[n]
          ELSE NoHeader

C18_Witness ==
  /\ UpstreamAnswered
  /\ handler = "vectorize/download"
  /\ outcome.ok
  /\ outcome.headers["X-Receipt"] = Header("1")
  /\ resp.headers["X-Receipt"] = Header("1")
  /\ outcome.headers["X-Credits-Charged"] = Header("")
  /\ resp.headers["X-Credits-Charged"] = NoHeader
  /\ outcome.headers["X-Image-Token"] = Header("1")
  /\ resp.headers["X-Image-Token"] = NoHeader

-----------------------------------------------------------------------------
(* Properties of the resizing and of the taking of files.                  *)

\* C19: the canvas compressImage and convertToWhiteBackgroundPNG draw on is
\* at most maxWidth wide and maxHeight high, and has the image's own size
\* when the image fits within both limits.
C19_ResizedWithinLimits ==
  (resizer # "none") =>
    /\ canvasSize.width <= limits.width
    /\ canvasSize.height <= limits.height
    /\ (natural.width <= limits.width /\ natural.height <= limits.height)
         => canvasSize = natural

\* C20: a component holds a file of the user as its image only if the file
\* is at most 10MB and a PNG, JPG, JPEG or WEBP.
C20_OnlyValidFilesHeld ==
  (held.kind = "file") => (held.size <= maxSize /\ held.type \in allowedTypes)

-----------------------------------------------------------------------------
(* The outfit page: Start Over, preprocessing, late responses.             *)

\* C21: Start Over clears the top image, the bottom image, the generated
\* image and the error and leaves the person image as it was; a step in which
\* the person image becomes null is the person slot's REMOVE button.
C21_ResetKeepsPerson ==
  [][/\ lastEvent' = Event("handleReset", "none")
        => /\ topImage' = "null"
           /\ bottomImage' = "null"
           /\ generatedImageUrl' = "null"
           /\ pageError' = "null"
           /\ personImage' = personImage
     /\ (personImage # "null" /\ personImage' = "null")
        => lastEvent' = Event("REMOVE", "person")]_vars

\* Start Over has just run on a page that held a person image and, before
\* it, a generated image's inputs: the person image is still there.
C21_Witness ==
  /\ lastEvent = Event("handleReset", "none")
  /\ personImage # "null"
  /\ topImage = "null"
  /\ bottomImage = "null"
  /\ fetching > 0

-----------------------------------------------------------------------------
(* generate-outfit: the order of the contents array.                       *)

\* C22: the contents generate-outfit hands to the model are ordered as the
\* prompt numbers the images: the top garment first, the bottom garment
\* second, the person photo, when provided, third, and the prompt text last.
C22_ContentsFollowPrompt ==
  (handler = "generate-outfit" /\ contents # <<>>) =>
    /\ contents[1] = "topImage"
    /\ contents[2] = "bottomImage"
    /\ Truthy(body.personImage) => contents[3] = "personImage"
    /\ contents[Len(contents)] = "prompt"

-----------------------------------------------------------------------------
(* Sign-in and the auth callback.                                          *)

\* C23: the destination stored as oauth_redirect at sign-in survives the
\* OAuth flow: after a successful code exchange the callback has navigated
\* to it.
C23_RedirectSurvives ==
  (authPage = "destination" /\ exchange = "exchanged" /\ oauth_redirect # Absent)
    => location = oauth_redirect

\* C26: whenever the callback page has recorded an error it renders the
\* Authentication Error view, not the Completing authentication spinner.
C26_ErrorViewShown ==
  (authPage = "callback" /\ callbackError # "null")
    => CallbackView = "Authentication Error"

-----------------------------------------------------------------------------
(* Network failures of the generation handlers.                            *)

\* C24: a thrown error whose message mentions fetch or network, the ones
\* thrown by the call to the external model included, is answered with 503
\* and a network-error message.
C24_NetworkErrorGives503 ==
  (/\ pc = "responded"
   /\ handler \in GenHandlers
   /\ outcome.kind = "throw"
   /\ outcome.msg.kw \cap NetworkKeywords # {})
    => (resp.status = 503 /\ resp.error = "Network error")

-----------------------------------------------------------------------------
(* The outfit page: preprocessing of a picked file.                        *)

\* C25: after a file is picked for a slot, whether the preprocessing call
\* succeeds or fails, the slot comes to hold an image and its processing
\* flag is false again: when the call returns, the slot holds the processed
\* file, or the original file with the error set.
C25_PickedFileIsHeld ==
  /\ \A s \in Slots :
       (picks[s] > 0) ~> (SlotImage(s) # "null" /\ ~isProcessing[s])
  /\ [][\A s \in Slots :
          lastEvent' = Event("onChange returns", s)
            => /\ ~isProcessing'[s]
               /\ \/ SlotImage(s)' = "processed"
                  \/ SlotImage(s)' = "original" /\ pageError' = "set"]_vars

\* A preprocessing call has failed: the slot holds the original file, the
\* error is set and the flag is false.
C25_Witness ==
  \E s \in Slots :
    /\ lastEvent = Event("onChange returns", s)
    /\ SlotImage(s) = "original"
    /\ pageError = "set"
    /\ ~isProcessing[s]

\* C27: after Start Over no generated image is there until a new generation
\* is started, whenever the earlier requests are answered.
C27_NoImageAfterReset == afterReset => generatedImageUrl = "null"

-----------------------------------------------------------------------------
(* BackgroundRemover.                                                      *)

\* C28: the processed image is null or the result of a request made for
\* the original image now loaded.
C28_ProcessedFromCurrentOriginal ==
  processedImageUrl = NoResult \/ processedImageUrl.image = originalImage

====
